---- MODULE Spec2Model ----
(***************************************************************************)
(* expand_subnets.py: body() reads a file of subnets, classifies every     *)
(* line with ipaddress.ip_network (strict, then non-strict), deletes the   *)
(* rejected entries and streams the hosts of the remaining networks to the *)
(* output file through hosts_generator.                                    *)
(*                                                                         *)
(* Text is a sequence of one-character strings, so that strip, parsing and *)
(* formatting are computed as the code computes them.  An address is a     *)
(* tuple of words, most significant first: four octets (IPv4) or eight     *)
(* hextets (IPv6); a network is [version, addr, prefixlen].                *)
(***************************************************************************)
EXTENDS Integers, Sequences, FiniteSets, TLC

(* ------------------------------ bounds ------------------------------- *)

\* the longest input file, in lines
MaxLines == 2

\* the widest host part of the networks that are expanded to the end
MaxHostBits == 2

(* ------------------------------- text -------------------------------- *)

DecDigits == <<"0", "1", "2", "3", "4", "5", "6", "7", "8", "9">>

HexLower == DecDigits \o <<"a", "b", "c", "d", "e", "f">>

HexUpper == DecDigits \o <<"A", "B", "C", "D", "E", "F">>

IsDigit(c) == \E k \in 1..10 : DecDigits[k] = c

IsHex(c) == \E k \in 1..16 : HexLower[k] = c \/ HexUpper[k] = c

HexVal(c) == (CHOOSE k \in 1..16 : HexLower[k] = c \/ HexUpper[k] = c) - 1

AllDigits(s) == s # <<>> /\ \A k \in 1..Len(s) : IsDigit(s[k])

Max(a, b) == IF a >= b THEN a ELSE b

Min(a, b) == IF a <= b THEN a ELSE b

RECURSIVE Pow2(_)
Pow2(n) == IF n = 0 THEN 1 ELSE 2 * Pow2(n - 1)

\* the first position of character c in s at or after k, 0 when there is none
RECURSIVE Find(_, _, _)
Find(s, c, k) ==
    IF k > Len(s) THEN 0 ELSE IF s[k] = c THEN k ELSE Find(s, c, k + 1)

\* str.split(c)
RECURSIVE Split(_, _)
Split(s, c) ==
    LET k == Find(s, c, 1)
    IN  IF k = 0 THEN <<s>>
        ELSE <<SubSeq(s, 1, k - 1)>> \o Split(SubSeq(s, k + 1, Len(s)), c)

\* c.join(parts)
RECURSIVE Join(_, _)
Join(parts, c) ==
    IF parts = <<>> THEN <<>>
    ELSE IF Len(parts) = 1 THEN parts[1]
    ELSE parts[1] \o <<c>> \o Join(Tail(parts), c)

RECURSIVE LStrip(_, _)
LStrip(s, cs) == IF s # <<>> /\ s[1] \in cs THEN LStrip(Tail(s), cs) ELSE s

RECURSIVE RStrip(_, _)
RStrip(s, cs) ==
    IF s # <<>> /\ s[Len(s)] \in cs
    THEN RStrip(SubSeq(s, 1, Len(s) - 1), cs)
    ELSE s

\* str.strip(chars)
Strip(s, cs) == RStrip(LStrip(s, cs), cs)

\* int(s, base) of a string of digits
RECURSIVE ParseInt(_, _)
ParseInt(s, base) ==
    IF s = <<>> THEN 0
    ELSE ParseInt(SubSeq(s, 1, Len(s) - 1), base) * base + HexVal(s[Len(s)])

\* str(n) and '%x' % n
RECURSIVE FormatInt(_, _)
FormatInt(n, base) ==
    IF n < base THEN <<HexLower[n + 1]>>
    ELSE FormatInt(n \div base, base) \o <<HexLower[(n % base) + 1]>>

(* --------------------- ipaddress: parsing, IPv4 ---------------------- *)

\* the checks of _parse_octet on the value of a string of at most 3 digits
OctetValue(s, value) ==
    IF s # <<"0">> /\ s[1] = "0" THEN -1
    ELSE IF value > 255 THEN -1
    ELSE value

\* IPv4Address._parse_octet; -1 stands for its ValueError
ParseOctet(s) ==
    IF s = <<>> THEN -1
    ELSE IF ~AllDigits(s) THEN -1
    ELSE IF Len(s) > 3 THEN -1
    ELSE OctetValue(s, ParseInt(s, 10))

\* the octets, unless one of them was refused
CheckedWords(words) ==
    IF \E k \in 1..Len(words) : words[k] = -1 THEN <<>> ELSE words

IPv4FromOctets(octets) ==
    IF Len(octets) # 4 THEN <<>>
    ELSE CheckedWords([k \in 1..4 |-> ParseOctet(octets[k])])

\* IPv4Address._ip_int_from_string; <<>> stands for AddressValueError
IPv4FromString(s) ==
    IF s = <<>> THEN <<>> ELSE IPv4FromOctets(Split(s, "."))

\* the range check of _prefix_from_prefix_string on int(s), s free of
\* leading zeroes
PrefixValue(z, maxlen) ==
    IF Len(z) > 3 THEN -1
    ELSE IF ParseInt(z, 10) > maxlen THEN -1
    ELSE ParseInt(z, 10)

\* _prefix_from_prefix_string; -1 stands for NetmaskValueError
PrefixFromPrefixString(s, maxlen) ==
    IF ~AllDigits(s) THEN -1 ELSE PrefixValue(LStrip(s, {"0"}), maxlen)

\* the bits of an address, most significant first
RECURSIVE WordBits(_, _)
WordBits(w, width) ==
    IF width = 0 THEN <<>>
    ELSE WordBits(w \div 2, width - 1) \o <<w % 2>>

RECURSIVE AddrBits(_, _)
AddrBits(addr, width) ==
    IF addr = <<>> THEN <<>>
    ELSE WordBits(addr[1], width) \o AddrBits(Tail(addr), width)

\* _count_righthand_zero_bits
RECURSIVE TrailingZeroes(_)
TrailingZeroes(bits) ==
    IF bits = <<>> THEN 0
    ELSE IF bits[Len(bits)] = 1 THEN 0
    ELSE 1 + TrailingZeroes(SubSeq(bits, 1, Len(bits) - 1))

AllOnes(bits, prefixlen) ==
    IF \A k \in 1..prefixlen : bits[k] = 1 THEN prefixlen ELSE -1

\* _prefix_from_ip_int; -1 stands for its ValueError (zeroes and ones mixed)
PrefixFromBits(bits) == AllOnes(bits, Len(bits) - TrailingZeroes(bits))

\* a netmask, else the inverted bits as a hostmask
NetmaskOrHostmask(bits, asNetmask) ==
    IF asNetmask # -1 THEN asNetmask
    ELSE PrefixFromBits([k \in 1..Len(bits) |-> 1 - bits[k]])

PrefixFromMaskBits(bits) == NetmaskOrHostmask(bits, PrefixFromBits(bits))

PrefixFromMask(mask) ==
    IF mask = <<>> THEN -1 ELSE PrefixFromMaskBits(AddrBits(mask, 8))

\* _prefix_from_ip_string; -1 stands for NetmaskValueError
PrefixFromIpString(s) == PrefixFromMask(IPv4FromString(s))

PrefixOrMask(s, asPrefix) ==
    IF asPrefix # -1 THEN asPrefix ELSE PrefixFromIpString(s)

\* IPv4Network._make_netmask of the text after the slash
MakeNetmask4(s) == PrefixOrMask(s, PrefixFromPrefixString(s, 32))

(* --------------------- ipaddress: parsing, IPv6 ---------------------- *)

\* IPv6Address._parse_hextet; -1 stands for its ValueError
ParseHextet(s) ==
    IF \E k \in 1..Len(s) : ~IsHex(s[k]) THEN -1
    ELSE IF Len(s) > 4 THEN -1
    ELSE IF s = <<>> THEN -1
    ELSE ParseInt(s, 16)

\* the ip_int: parts_hi hextets, parts_skipped zero hextets, parts_lo hextets
Hextets(parts, hi, skipped, lo) ==
    CheckedWords([k \in 1..hi |-> ParseHextet(parts[k])]
                 \o [k \in 1..skipped |-> 0]
                 \o [k \in 1..lo |-> ParseHextet(parts[Len(parts) - lo + k])])

\* the checks on parts_hi and parts_lo around a '::'
IPv6Counts(parts, hi, lo) ==
    IF parts[1] = <<>> /\ hi # 0 THEN <<>>
    ELSE IF parts[Len(parts)] = <<>> /\ lo # 0 THEN <<>>
    ELSE IF 8 - (hi + lo) < 1 THEN <<>>
    ELSE Hextets(parts, hi, 8 - (hi + lo), lo)

\* skip is the position of the empty part of the one '::'
IPv6Compressed(parts, skip) ==
    IPv6Counts(parts,
               IF parts[1] = <<>> THEN skip - 2 ELSE skip - 1,
               IF parts[Len(parts)] = <<>> THEN Len(parts) - skip - 1
               ELSE Len(parts) - skip)

\* skips: the empty parts that are neither first nor last
IPv6Skips(parts, skips) ==
    IF Cardinality(skips) > 1 THEN <<>>
    ELSE IF skips # {} THEN IPv6Compressed(parts, CHOOSE k \in skips : TRUE)
    ELSE IF Len(parts) # 8 THEN <<>>
    ELSE IF parts[1] = <<>> \/ parts[Len(parts)] = <<>> THEN <<>>
    ELSE Hextets(parts, 8, 0, 0)

IPv6FromParts(parts) ==
    IF Len(parts) > 9 THEN <<>>
    ELSE IPv6Skips(parts, {k \in 2..(Len(parts) - 1) : parts[k] = <<>>})

\* an IPv4-style suffix becomes two hextets in hexadecimal
IPv6WithSuffix(parts, v4) ==
    IF v4 = <<>> THEN <<>>
    ELSE IPv6FromParts(SubSeq(parts, 1, Len(parts) - 1)
                       \o <<FormatInt(v4[1] * 256 + v4[2], 16),
                            FormatInt(v4[3] * 256 + v4[4], 16)>>)

IPv6FromSplit(parts) ==
    IF Len(parts) < 3 THEN <<>>
    ELSE IF Find(parts[Len(parts)], ".", 1) # 0
    THEN IPv6WithSuffix(parts, IPv4FromString(parts[Len(parts)]))
    ELSE IPv6FromParts(parts)

\* IPv6Address._ip_int_from_string; <<>> stands for AddressValueError
IPv6FromString(s) ==
    IF s = <<>> THEN <<>> ELSE IPv6FromSplit(Split(s, ":"))

(* ------------------------ ipaddress: networks ------------------------ *)

WordWidth(version) == IF version = 4 THEN 8 ELSE 16

MaxPrefixLen(version) == IF version = 4 THEN 32 ELSE 128

\* one word of packed & netmask
MaskedWord(word, zeroed) == (word \div Pow2(zeroed)) * Pow2(zeroed)

\* packed & netmask, word by word
NetworkAddress(addr, prefixlen, width) ==
    [k \in 1..Len(addr) |->
        MaskedWord(addr[k],
                   width - Max(0, Min(width, prefixlen - (k - 1) * width)))]

\* NetworkChecked with the non-strict network left at the address given
NetworkUnmasked(version, addr, prefixlen, network, strict) ==
    IF network # addr /\ strict THEN [status |-> "ValueError"]
    ELSE [status |-> "ok", version |-> version, addr |-> addr,
          prefixlen |-> prefixlen]

\* the host bits check: strict refuses, non-strict masks them off
NetworkChecked(version, addr, prefixlen, network, strict) ==
    IF network # addr /\ strict THEN [status |-> "ValueError"]
    ELSE [status |-> "ok", version |-> version, addr |-> network,
          prefixlen |-> prefixlen]

NetworkFromParts(version, addr, prefixlen, strict) ==
    IF addr = <<>> THEN [status |-> "AddressValueError"]
    ELSE IF prefixlen = -1 THEN [status |-> "NetmaskValueError"]
    ELSE NetworkChecked(version, addr, prefixlen,
                        NetworkAddress(addr, prefixlen, WordWidth(version)),
                        strict)

\* halves: the text split at the slash (_split_addr_prefix)
NetworkFromHalves(version, halves, strict) ==
    IF Len(halves) > 2 THEN [status |-> "AddressValueError"]
    ELSE NetworkFromParts(
             version,
             IF version = 4 THEN IPv4FromString(halves[1])
             ELSE IPv6FromString(halves[1]),
             IF Len(halves) = 1 THEN MaxPrefixLen(version)
             ELSE IF version = 4 THEN MakeNetmask4(halves[2])
             ELSE PrefixFromPrefixString(halves[2], 128),
             strict)

\* IPv4Network(text, strict) and IPv6Network(text, strict): the network, or
\* the exception the constructor raises
IPNetworkOfVersion(version, text, strict) ==
    NetworkFromHalves(version, Split(text, "/"), strict)

IPv6OrNothing(r6) ==
    IF r6.status \in {"ok", "ValueError"} THEN r6
    ELSE [status |-> "ValueError"]

IPv4OrIPv6(r4, text, strict) ==
    IF r4.status \in {"ok", "ValueError"} THEN r4
    ELSE IPv6OrNothing(IPNetworkOfVersion(6, text, strict))

\* ipaddress.ip_network(text, strict): IPv4 first, then IPv6; "has host bits
\* set" is a plain ValueError and is not caught; anything else ends in the
\* ValueError "does not appear to be an IPv4 or IPv6 network"
ip_network(text, strict) ==
    IPv4OrIPv6(IPNetworkOfVersion(4, text, strict), text, strict)

(* ----------------------- ipaddress: formatting ----------------------- *)

\* the length of the run of "0" hextets that starts at k
RECURSIVE ZeroRun(_, _)
ZeroRun(hextets, k) ==
    IF k > Len(hextets) THEN 0
    ELSE IF hextets[k] # <<"0">> THEN 0
    ELSE 1 + ZeroRun(hextets, k + 1)

\* the run [start, start + len) replaced by '', with the '' that join needs
\* at either end
Compressed(hextets, start, len) ==
    IF len <= 1 THEN hextets
    ELSE (IF start = 1 THEN <<<<>>>> ELSE <<>>)
         \o SubSeq(hextets, 1, start - 1)
         \o <<<<>>>>
         \o (IF start + len = Len(hextets) + 1 THEN <<<<>>>>
             ELSE SubSeq(hextets, start + len, Len(hextets)))

CompressedAt(hextets, start) ==
    Compressed(hextets, start, ZeroRun(hextets, start))

\* IPv6Address._compress_hextets: the first of the longest runs
CompressHextets(hextets) ==
    CompressedAt(hextets,
                 CHOOSE k \in 1..Len(hextets) :
                     /\ \A x \in 1..Len(hextets) :
                            ZeroRun(hextets, x) <= ZeroRun(hextets, k)
                     /\ \A x \in 1..(k - 1) :
                            ZeroRun(hextets, x) < ZeroRun(hextets, k))

\* str(address)
AddressStr(version, addr) ==
    IF version = 4
    THEN Join([k \in 1..4 |-> FormatInt(addr[k], 10)], ".")
    ELSE Join(CompressHextets([k \in 1..8 |-> FormatInt(addr[k], 16)]), ":")

\* str(network)
NetworkStr(net) ==
    AddressStr(net.version, net.addr) \o <<"/">> \o FormatInt(net.prefixlen, 10)

(* ------------------------- ipaddress: hosts -------------------------- *)

HostBits(net) == MaxPrefixLen(net.version) - net.prefixlen

\* addr + n, with the carry running through the words
RECURSIVE AddToAddr(_, _, _)
AddToAddr(addr, n, width) ==
    IF addr = <<>> THEN <<>>
    ELSE LET sum == addr[Len(addr)] + n
         IN  AddToAddr(SubSeq(addr, 1, Len(addr) - 1), sum \div Pow2(width), width)
             \o <<sum % Pow2(width)>>

\* the offset from the network address of the first element of net.hosts():
\* __iter__ for a one-bit host part and the single address of a full-length
\* prefix start at the network address itself, range(network + 1, ...) after it
FirstHostOffset(net) == IF HostBits(net) <= 1 THEN 0 ELSE 1

\* HostCount with the /31 and /32 cases lost: range(network + 1, broadcast) is
\* empty there
HostCountNoSmall(net, singleHost) ==
    IF HostBits(net) <= 1 THEN 0
    ELSE IF net.version = 4 THEN Pow2(HostBits(net)) - 2
    ELSE Pow2(HostBits(net)) - 1

\* len(list(net.hosts())), for a host part of at most 30 bits
HostCount(net, singleHost) ==
    IF HostBits(net) = 0 THEN (IF singleHost THEN 1 ELSE 0)
    ELSE IF HostBits(net) = 1 THEN 2
    ELSE IF net.version = 4 THEN Pow2(HostBits(net)) - 2
    ELSE Pow2(HostBits(net)) - 1

\* whether net.hosts() is exhausted after h elements; a host part wider than
\* 30 bits holds more hosts than any run here draws
HostsExhausted(net, h, singleHost) ==
    HostBits(net) <= 30 /\ h >= HostCount(net, singleHost)

\* element h (counted from 0) of net.hosts()
HostAt(net, h) ==
    AddToAddr(net.addr, FirstHostOffset(net) + h, WordWidth(net.version))

(* --------------------------- the program ----------------------------- *)

VARIABLES
    pc,             \* where body() stands
    singleHost,     \* the interpreter: hosts() of a /32 (or /128) holds the
                    \* address itself (CPython 3.9 and later) or nothing
    fs,             \* the names that exist in the folder
    file,           \* the lines of the input file, each with its newline
    f_output,       \* the output name
    choice,         \* the last answer to the overwrite prompt
    prompted,       \* the output name the last overwrite prompt was about
    netlist,        \* the list body() classifies and hands to hosts_generator
    i,              \* the position of the classification loop
    invalid_lines,  \* the positions marked invalid
    todo,           \* the positions still to delete, in deletion order
    log,            \* the diagnostics printed
    gi,             \* hosts_generator: the subnet it stands in
    hi,             \* hosts_generator: the hosts of that subnet already yielded
    pending,        \* yielded by the generator, not yet written
    hostsOf,        \* per subnet of the generator's list, what it yielded
    output          \* the lines written to the output file

vars == <<pc, singleHost, fs, file, f_output, choice, prompted, netlist, i,
          invalid_lines, todo, log, gi, hi, pending, hostsOf, output>>

f_input == <<"subnets">>

\* f_input + ".out"
DefaultOutput(name) == name \o <<".out">>

\* what the user may type at 'Enter the name for the output file: '
Names == {DefaultOutput(f_input), <<"hosts">>, <<"other">>}

\* what the user may type at the overwrite prompt
Answers == {"y", "n", "Y", ""}

Str(text) == [kind |-> "str", text |-> text]

Net(r) == [kind |-> "net", version |-> r.version, addr |-> r.addr,
           prefixlen |-> r.prefixlen]

\* line.strip(' \n\t')
StripLine(line) == Strip(line, {" ", "\n", "\t"})

\* AfterAnswer with 'n' leaving the loop too, the new name unchecked
AfterAnswerAny(answer) == IF answer \in {"y", "n"} THEN "read" ELSE "confirm"

\* where the overwrite loop goes after an answer: the while test lets only
\* 'y' leave
AfterAnswer(answer) == IF answer = "y" THEN "read" ELSE "confirm"

\* one pass of the overwrite loop
ConfirmOverwrite ==
    /\ pc = "confirm"
    /\ IF f_output \in fs
       THEN \E answer \in Answers :
                /\ choice' = answer
                /\ prompted' = f_output
                /\ IF answer = "n"
                   THEN \E name \in Names : f_output' = name
                   ELSE f_output' = f_output
                /\ pc' = AfterAnswer(answer)
       ELSE /\ pc' = "read"
            /\ UNCHANGED <<choice, prompted, f_output>>
    /\ UNCHANGED <<singleHost, fs, file, netlist, i, invalid_lines, todo, log,
                   gi, hi, pending, hostsOf, output>>

\* read in the list of subnets
ReadFile ==
    /\ pc = "read"
    /\ netlist' = [k \in 1..Len(file) |-> Str(StripLine(file[k]))]
    /\ invalid_lines' = <<>>
    /\ i' = 1
    /\ pc' = "classify"
    /\ UNCHANGED <<singleHost, fs, file, f_output, choice, prompted, todo, log,
                   gi, hi, pending, hostsOf, output>>

\* ClassifyLenient without the inner except: the ValueError leaves the ladder
ClassifyLenientUncaught(elem, lenient) ==
    IF lenient.status = "ok"
    THEN [outcome |-> "coerced", net |-> Net(lenient)]
    ELSE [outcome |-> "ValueError", net |-> Str(elem)]

\* the inner try: the non-strict network with a warning, else invalid
ClassifyLenient(elem, lenient) ==
    IF lenient.status = "ok"
    THEN [outcome |-> "coerced", net |-> Net(lenient)]
    ELSE [outcome |-> "invalid", net |-> Str(elem)]

\* the outer try: the strict network
ClassifyStrict(elem, strict) ==
    IF strict.status = "ok"
    THEN [outcome |-> "network", net |-> Net(strict)]
    ELSE ClassifyLenient(elem, ip_network(elem, FALSE))

\* the try/except ladder on one element
Classify(elem) == ClassifyStrict(elem, ip_network(elem, TRUE))

\* Diagnostics without the test that keeps empty strings out of the log
DiagnosticsAll(k, elem, c) ==
    IF c.outcome = "coerced"
    THEN <<[kind |-> "warning", index |-> k, text |-> elem,
            used |-> AddressStr(c.net.version, c.net.addr)]>>
    ELSE IF c.outcome = "invalid"
    THEN <<[kind |-> "error", index |-> k, text |-> elem, used |-> <<>>]>>
    ELSE <<>>

\* what one pass of the classification loop prints
Diagnostics(k, elem, c) ==
    IF c.outcome = "coerced"
    THEN <<[kind |-> "warning", index |-> k, text |-> elem,
            used |-> AddressStr(c.net.version, c.net.addr)]>>
    ELSE IF c.outcome = "invalid" /\ elem # <<>>
    THEN <<[kind |-> "error", index |-> k, text |-> elem, used |-> <<>>]>>
    ELSE <<>>

\* what one pass of the classification loop leaves behind; an exception
\* that left the ladder would end body()
Classified(elem, c) ==
    /\ pc' = IF c.outcome \in {"network", "coerced", "invalid"}
             THEN "classify"
             ELSE "ValueError"
    /\ netlist' = [netlist EXCEPT ![i] = c.net]
    /\ invalid_lines' = IF c.outcome = "invalid"
                        THEN Append(invalid_lines, i)
                        ELSE invalid_lines
    /\ log' = log \o Diagnostics(i, elem, c)

\* one pass of the classification loop
ClassifyLine ==
    /\ pc = "classify"
    /\ i <= Len(netlist)
    /\ Classified(netlist[i].text, Classify(netlist[i].text))
    /\ i' = i + 1
    /\ UNCHANGED <<singleHost, fs, file, f_output, choice, prompted, todo,
                   gi, hi, pending, hostsOf, output>>

RECURSIVE Reverse(_)
Reverse(s) == IF s = <<>> THEN <<>> ELSE Reverse(Tail(s)) \o <<Head(s)>>

\* DeletionOrder without the reversal
DeletionOrderForward(lines) == lines

\* invalid_lines[::-1]
DeletionOrder(lines) == Reverse(lines)

\* the classification loop is over: the deletion loop starts
ClassifyEnd ==
    /\ pc = "classify"
    /\ i > Len(netlist)
    /\ todo' = DeletionOrder(invalid_lines)
    /\ pc' = "delete"
    /\ UNCHANGED <<singleHost, fs, file, f_output, choice, prompted, netlist, i,
                   invalid_lines, log, gi, hi, pending, hostsOf, output>>

\* del netlist[k]; an index out of range is an IndexError, which nothing
\* catches
DeleteInvalid ==
    /\ pc = "delete"
    /\ todo # <<>>
    /\ LET k == Head(todo)
       IN  IF k \in 1..Len(netlist)
           THEN /\ netlist' = SubSeq(netlist, 1, k - 1)
                              \o SubSeq(netlist, k + 1, Len(netlist))
                /\ pc' = "delete"
           ELSE /\ netlist' = netlist
                /\ pc' = "IndexError"
    /\ todo' = Tail(todo)
    /\ UNCHANGED <<singleHost, fs, file, f_output, choice, prompted, i,
                   invalid_lines, log, gi, hi, pending, hostsOf, output>>

\* open(f_output, 'w') and the call of hosts_generator(netlist)
OpenOutput ==
    /\ pc = "delete"
    /\ todo = <<>>
    /\ fs' = fs \cup {f_output}
    /\ output' = <<>>
    /\ gi' = 1
    /\ hi' = 0
    /\ pending' = <<>>
    /\ hostsOf' = [g \in 1..Len(netlist) |-> <<>>]
    /\ pc' = "write"
    /\ UNCHANGED <<singleHost, file, f_output, choice, prompted, netlist, i,
                   invalid_lines, todo, log>>

\* NextYield passing over a subnet that stood in the list before
RECURSIVE NextYieldOnce(_, _, _, _)
NextYieldOnce(input_list, g, h, single) ==
    IF g > Len(input_list) THEN [g |-> g, h |-> 0]
    ELSE IF \/ HostsExhausted(input_list[g], h, single)
            \/ \E e \in 1..(g - 1) : input_list[e] = input_list[g]
    THEN NextYieldOnce(input_list, g + 1, 0, single)
    ELSE [g |-> g, h |-> h]

\* hosts_generator resumed: where its next yield stands, past the subnets
\* whose hosts are exhausted; g beyond the list is StopIteration
RECURSIVE NextYield(_, _, _, _)
NextYield(input_list, g, h, single) ==
    IF g > Len(input_list) THEN [g |-> g, h |-> 0]
    ELSE IF HostsExhausted(input_list[g], h, single)
    THEN NextYield(input_list, g + 1, 0, single)
    ELSE [g |-> g, h |-> h]

\* Yielded with the hosts of the subnet built as a list and handed over whole
YieldedAll(input_list, g, h) ==
    [n \in 1..(HostCount(input_list[g], singleHost) - h) |->
        AddressStr(input_list[g].version, HostAt(input_list[g], h + n - 1))
        \o <<"\n">>]

\* what hosts_generator hands over when resumed at a yield: str(i) + '\n'
Yielded(input_list, g, h) ==
    <<AddressStr(input_list[g].version, HostAt(input_list[g], h)) \o <<"\n">>>>

\* the most lines a run writes before the model stops following it
OutCap == MaxLines * Pow2(MaxHostBits)

\* the generator runs to its next yield, at subnet g and host h
Resumed(g, h) ==
    /\ g <= Len(netlist)
    /\ pending' = Yielded(netlist, g, h)
    /\ gi' = g
    /\ hi' = h + Len(pending')
    /\ hostsOf' = [hostsOf EXCEPT ![g] = @ \o pending']

ResumedAt(at) == Resumed(at.g, at.h)

\* writelines asks the generator for the next line
GenNext ==
    /\ pc = "write"
    /\ pending = <<>>
    /\ Len(output) < OutCap
    /\ ResumedAt(NextYield(netlist, gi, hi, singleHost))
    /\ UNCHANGED <<pc, singleHost, fs, file, f_output, choice, prompted, netlist,
                   i, invalid_lines, todo, log, output>>

\* writelines writes the line it was handed
WriteLine ==
    /\ pc = "write"
    /\ pending # <<>>
    /\ output' = Append(output, Head(pending))
    /\ pending' = Tail(pending)
    /\ UNCHANGED <<pc, singleHost, fs, file, f_output, choice, prompted, netlist,
                   i, invalid_lines, todo, log, gi, hi, hostsOf>>

\* the generator is exhausted: the file is closed and 'Done!' printed
GenStop ==
    /\ pc = "write"
    /\ pending = <<>>
    /\ NextYield(netlist, gi, hi, singleHost).g > Len(netlist)
    /\ pc' = "done"
    /\ UNCHANGED <<singleHost, fs, file, f_output, choice, prompted, netlist, i,
                   invalid_lines, todo, log, gi, hi, pending, hostsOf, output>>

(* ----------------------------- the inputs ---------------------------- *)

Cidr(addr, prefixlen) ==
    AddressStr(4, addr) \o <<"/">> \o FormatInt(prefixlen, 10)

\* lines whose networks have at most MaxHostBits host bits, and lines that
\* are no network
SmallTexts ==
    {Cidr(<<192, 168, 1, 0>>, p) : p \in (32 - MaxHostBits)..32}
    \cup {Cidr(<<10, 0, 0, 5>>, p) : p \in (32 - MaxHostBits)..32}
    \cup {<<"1", "9", "2", ".", "1", "6", "8", ".", "1", ".", "1">>,
          <<>>,
          <<" ", "\t">>,
          <<"\f">>,
          <<"n", "o", "t", ".", "a", "n", ".", "a", "d", "d", "r", "e", "s", "s">>,
          <<"2", "0", "0", "1", ":", "d", "b", "8", ":", ":", "/", "1", "2", "6">>,
          <<":", ":", "1">>,
          <<" ">> \o Cidr(<<192, 168, 1, 0>>, 30) \o <<"\t">>,
          <<"1", "0", ".", "0", ".", "0", ".", "1", "/", "3", "3">>}

\* lines whose networks are too large to expand to the end
LargeTexts ==
    {Cidr(<<10, 0, 0, 5>>, 24),
     Cidr(<<10, 0, 0, 5>>, 0),
     Cidr(<<172, 17, 0, 0>>, 12),
     Cidr(<<172, 16, 0, 0>>, 12),
     Cidr(<<10, 0, 0, 5>>, 30),
     Cidr(<<10, 0, 0, 5>>, 31),
     Cidr(<<192, 168, 1, 0>>, 30),
     <<"1", "0", ".", "0", ".", "0", ".", "5", "/",
       "2", "5", "5", ".", "2", "5", "5", ".", "2", "5", "5", ".", "0">>,
     <<":", ":", "/", "3", "0">>,
     <<"n", "o", "t", ".", "a", "n", ".", "a", "d", "d", "r", "e", "s", "s">>}

\* the files of at most MaxLines lines, every line ending in a newline
Files(texts) ==
    UNION {[1..n -> {t \o <<"\n">> : t \in texts}] : n \in 0..MaxLines}

InitWith(files, folders) ==
    /\ pc = "confirm"
    /\ singleHost \in BOOLEAN
    /\ fs \in folders
    /\ file \in files
    /\ f_output = DefaultOutput(f_input)
    /\ choice = ""
    /\ prompted = <<>>
    /\ netlist = <<>>
    /\ i = 0
    /\ invalid_lines = <<>>
    /\ todo = <<>>
    /\ log = <<>>
    /\ gi = 0
    /\ hi = 0
    /\ pending = <<>>
    /\ hostsOf = <<>>
    /\ output = <<>>

\* body(f_input) on a file of small networks, the output name free
Init == InitWith(Files(SmallTexts), {{f_input}})

\* body(f_input) on a short file, in every folder
InitConfirm ==
    InitWith({<<>>,
              <<Cidr(<<192, 168, 1, 0>>, 30) \o <<"\n">>,
                <<"n", "o", "t", ".", "a", "n", ".", "a", "d", "d", "r", "e", "s", "s", "\n">>>>},
             {{f_input} \cup taken : taken \in SUBSET Names})

\* body(f_input) on a file that holds large networks too
InitLarge == InitWith(Files(LargeTexts), {{f_input}})

Next ==
    \/ ConfirmOverwrite
    \/ ReadFile
    \/ ClassifyLine
    \/ ClassifyEnd
    \/ DeleteInvalid
    \/ OpenOutput
    \/ GenNext
    \/ WriteLine
    \/ GenStop

Spec == Init /\ [][Next]_vars

SpecConfirm == InitConfirm /\ [][Next]_vars

SpecLarge == InitLarge /\ [][Next]_vars

(* ------------------------------ claims ------------------------------- *)

Range(s) == {s[k] : k \in 1..Len(s)}

RECURSIVE Flatten(_)
Flatten(ss) == IF ss = <<>> THEN <<>> ELSE Head(ss) \o Flatten(Tail(ss))

RECURSIVE TotalLen(_)
TotalLen(ss) == IF ss = <<>> THEN 0 ELSE Len(Head(ss)) + TotalLen(Tail(ss))

\* a line of the output file
Line(text) == text \o <<"\n">>

\* the hosts of one network as the lines hosts_generator yields for it
HostLines(net) ==
    [h \in 1..HostCount(net, singleHost) |-> Yielded(<<net>>, 1, h - 1)[1]]

\* the classification of line k of the input file
LineClass(k) == Classify(StripLine(file[k]))

\* the networks accepted from line k on, in line order
RECURSIVE AcceptedFrom(_)
AcceptedFrom(k) ==
    IF k > Len(file) THEN <<>>
    ELSE (IF LineClass(k).outcome = "invalid" THEN <<>> ELSE <<LineClass(k).net>>)
         \o AcceptedFrom(k + 1)

ExpectedOutput(nets) == Flatten([g \in 1..Len(nets) |-> HostLines(nets[g])])

\* the elements of s from position k on whose positions are not in dropped
RECURSIVE KeptFrom(_, _, _)
KeptFrom(s, dropped, k) ==
    IF k > Len(s) THEN <<>>
    ELSE (IF k \in dropped THEN <<>> ELSE <<s[k]>>) \o KeptFrom(s, dropped, k + 1)

\* where the element of line k stands once the invalid lines are deleted
PositionAfterDeletion(k) == k - Cardinality({x \in Range(invalid_lines) : x < k})

ClassificationOver == pc = "classify" /\ i > Len(netlist)

DeletionOver == pc = "delete" /\ todo = <<>>

NotIPv4Text(t) == \E k \in 1..Len(t) : ~IsDigit(t[k]) /\ t[k] \notin {".", "/"}

\* C2 as claimed: every non-empty line that is not IPv4 text is marked
\* invalid by the classification loop, and a file of such lines and blank
\* lines gives an empty output.
C2_NonIPv4Rejected ==
    /\ pc \in {"delete", "write", "done"} =>
           \A k \in 1..Len(file) :
               NotIPv4Text(StripLine(file[k])) => k \in Range(invalid_lines)
    /\ (/\ pc = "done"
        /\ \A k \in 1..Len(file) :
               \/ StripLine(file[k]) = <<>>
               \/ NotIPv4Text(StripLine(file[k])))
       => output = <<>>

\* the address a line of the output names
HostAddress(line, version) ==
    IF version = 4 THEN IPv4FromString(Strip(line, {"\n"}))
    ELSE IPv6FromString(Strip(line, {"\n"}))

\* a < b as numbers, the words most significant first
RECURSIVE AddrLess(_, _)
AddrLess(a, b) ==
    IF a = <<>> THEN FALSE
    ELSE IF a[1] # b[1] THEN a[1] < b[1]
    ELSE AddrLess(Tail(a), Tail(b))

\* the last address of a network: the host bits all one
BroadcastAddress(net) ==
    [k \in 1..Len(net.addr) |->
        net.addr[k] + Pow2(WordWidth(net.version)
                           - Max(0, Min(WordWidth(net.version),
                                        net.prefixlen
                                        - (k - 1) * WordWidth(net.version))))
        - 1]

\* what C3 says of the hosts yielded for subnet g, of prefix length n <= 30:
\* never more than 2^(32-n) - 2, exactly as many once the generator has left
\* the subnet, strictly ascending, none the network or broadcast address
HostsAsClaimed(g, n) ==
    /\ 32 - n <= 30 => Len(hostsOf[g]) <= Pow2(32 - n) - 2
    /\ (32 - n <= 30 /\ (pc = "done" \/ (pending = <<>> /\ gi > g)))
           => Len(hostsOf[g]) = Pow2(32 - n) - 2
    /\ \A a, b \in 1..Len(hostsOf[g]) :
           a < b => AddrLess(HostAddress(hostsOf[g][a], netlist[g].version),
                             HostAddress(hostsOf[g][b], netlist[g].version))
    /\ \A a \in 1..Len(hostsOf[g]) :
           /\ HostAddress(hostsOf[g][a], netlist[g].version) # netlist[g].addr
           /\ HostAddress(hostsOf[g][a], netlist[g].version)
                  # BroadcastAddress(netlist[g])

\* C3 as claimed: for every accepted network of prefix length N <= 30,
\* hosts_generator yields exactly 2^(32-N) - 2 addresses, strictly ascending,
\* none of them the network or the broadcast address.
C3_HostsOfNetwork ==
    \A g \in 1..Len(hostsOf) :
        netlist[g].prefixlen <= 30 => HostsAsClaimed(g, netlist[g].prefixlen)

\* C3 on the IPv4 networks alone, where it holds.
C3_HostsOfIPv4Network ==
    \A g \in 1..Len(hostsOf) :
        (netlist[g].version = 4 /\ netlist[g].prefixlen <= 30)
            => HostsAsClaimed(g, netlist[g].prefixlen)

\* the addresses that stand in the lines A.B.C.D/N of the inputs
SampleAddresses == {<<10, 0, 0, 5>>, <<172, 17, 0, 0>>, <<192, 168, 1, 0>>}

\* the prefix lengths N that stand in them
SamplePrefixes == {0, 12, 24, 30, 31}

\* the bits of addr with the bits after the first n set to zero
MaskedBits(addr, n) ==
    [b \in 1..32 |-> IF b <= n THEN AddrBits(addr, 8)[b] ELSE 0]

HostBitsSet(addr, n) == \E b \in (n + 1)..32 : AddrBits(addr, 8)[b] = 1

\* hosts_generator has just yielded the first host of subnet gi
FirstHostYielded == pc = "write" /\ pending # <<>> /\ hi = 1

\* what C4 says of line k, which reads addr/n with host bits set
CoercedAsClaimed(k, addr, n) ==
    /\ k \notin Range(invalid_lines)
    /\ netlist[PositionAfterDeletion(k)].kind = "net"
    /\ netlist[PositionAfterDeletion(k)].version = 4
    /\ netlist[PositionAfterDeletion(k)].prefixlen = n
    /\ AddrBits(netlist[PositionAfterDeletion(k)].addr, 8) = MaskedBits(addr, n)
    /\ Classify(NetworkStr(netlist[PositionAfterDeletion(k)]))
           = [outcome |-> "network", net |-> netlist[PositionAfterDeletion(k)]]
    /\ (FirstHostYielded /\ gi = PositionAfterDeletion(k) /\ n <= 30)
           => HostAddress(pending[1], 4)
                  = [netlist[PositionAfterDeletion(k)].addr EXCEPT ![4] = @ + 1]

\* C4: a line A.B.C.D/N with host bits set (N < 32) is not rejected: the list
\* handed to hosts_generator holds in its place the IPv4 network of prefix
\* length N whose address is A.B.C.D with the host bits zero, that network is
\* the one expanded (its first host follows the masked address), and its
\* text address/N classifies as a strict network, the same one, with no
\* coercion.
C4_CoercedToNetwork ==
    (DeletionOver \/ FirstHostYielded) =>
        \A k \in 1..Len(file) : \A addr \in SampleAddresses :
            \A n \in SamplePrefixes :
            (StripLine(file[k]) = Cidr(addr, n) /\ HostBitsSet(addr, n))
                => CoercedAsClaimed(k, addr, n)

C4_Witness ==
    /\ FirstHostYielded
    /\ Len(file) = 2
    /\ StripLine(file[1]) = Cidr(<<172, 17, 0, 0>>, 12)
    /\ StripLine(file[2]) = Cidr(<<10, 0, 0, 5>>, 31)
    /\ netlist[1].addr = <<172, 16, 0, 0>>
    /\ netlist[2].addr = <<10, 0, 0, 4>>
    /\ gi = 1
    /\ pending = <<Line(AddressStr(4, <<172, 16, 0, 1>>))>>

\* C5: when body() is done the output file holds, in line order of the input,
\* the hosts of each accepted network: the host sequences concatenated, none
\* interleaved or reordered, a network that stands twice expanded twice.
C5_OutputInInputOrder ==
    pc = "done" => output = ExpectedOutput(AcceptedFrom(1))

C5_Witness ==
    /\ pc = "done"
    /\ Len(netlist) = 2
    /\ netlist[1] = netlist[2]
    /\ Len(hostsOf[1]) = 2
    /\ Len(output) = 4

\* the diagnostics printed for line k
DiagnosticsOf(k) == {n \in 1..Len(log) : log[n].index = k}

\* the diagnostics match the outcomes one to one, a blank line being one that
\* is empty once the characters of blanks are stripped from both ends
DiagnosticsMatch(blanks) ==
    ClassificationOver =>
        \A k \in 1..Len(file) :
            /\ Strip(file[k], blanks) = <<>> =>
                   DiagnosticsOf(k) = {} /\ k \in Range(invalid_lines)
            /\ LineClass(k).outcome = "coerced" =>
                   /\ Cardinality(DiagnosticsOf(k)) = 1
                   /\ \A n \in DiagnosticsOf(k) : log[n].kind = "warning"
            /\ (LineClass(k).outcome = "invalid" /\ Strip(file[k], blanks) # <<>>) =>
                   /\ Cardinality(DiagnosticsOf(k)) = 1
                   /\ \A n \in DiagnosticsOf(k) : log[n].kind = "error"
            /\ LineClass(k).outcome = "network" => DiagnosticsOf(k) = {}

\* the whitespace characters of the inputs
Whitespace == {" ", "\t", "\n", "\f"}

\* C6 as claimed: a line that is blank once leading and trailing whitespace is
\* trimmed gives no diagnostic and no output, a coerced line one warning, a
\* rejected non-empty line one error, a strict network none.
C6_DiagnosticsPerWhitespace == DiagnosticsMatch(Whitespace)

\* C6, amended: the same, a blank line being one that is empty once leading
\* and trailing spaces, tabs and newlines are trimmed.
C6_DiagnosticsPerOutcome == DiagnosticsMatch({" ", "\t", "\n"})

C6_Witness ==
    /\ ClassificationOver
    /\ Len(file) = 2
    /\ StripLine(file[1]) = <<>>
    /\ StripLine(file[2]) = <<"\f">>
    /\ Len(log) = 1
    /\ log[1].kind = "error"
    /\ log[1].index = 2

\* body() has a next step: the loop or statement it stands at can run
CanStep ==
    \/ pc = "confirm" /\ ENABLED ConfirmOverwrite
    \/ pc = "read" /\ ENABLED ReadFile
    \/ pc = "classify" /\ (i <= Len(netlist) \/ ENABLED ClassifyEnd)
    \/ pc = "delete" /\ ENABLED (DeleteInvalid \/ OpenOutput)
    \/ pc = "write" /\ \/ ENABLED WriteLine
                       \/ ENABLED GenStop
                       \/ pending = <<>> /\ Len(output) < OutCap

\* C7: no line halts the run: no exception ends body(), every state but the
\* last has a next step, and when body() is done every line was classified
\* and every accepted network, whatever stands before it, was expanded to its
\* hosts.
C7_NeverHalts ==
    /\ pc \notin {"ValueError", "IndexError"}
    /\ pc # "done" => CanStep
    /\ pc = "done" =>
           /\ i = Len(file) + 1
           /\ netlist = AcceptedFrom(1)
           /\ \A g \in 1..Len(netlist) : hostsOf[g] = HostLines(netlist[g])
           /\ Len(output) = TotalLen(hostsOf)

C7_Witness ==
    /\ pc = "done"
    /\ Len(file) = 2
    /\ invalid_lines = <<1>>
    /\ StripLine(file[1]) # <<>>
    /\ Len(netlist) = 1
    /\ output = HostLines(netlist[1])
    /\ Len(output) >= 2

\* C8: hosts are produced on demand: the generator has never produced more
\* than one host that the writer has not yet written.
C8_OnDemand ==
    /\ Len(pending) <= 1
    /\ TotalLen(hostsOf) = Len(output) + Len(pending)

C8_Witness ==
    /\ pc = "write"
    /\ Len(output) >= 1
    /\ Len(pending) = 1
    /\ Len(hostsOf[gi]) < HostCount(netlist[gi], singleHost)

\* C9: the reverse-order deletion never fails, and the list it hands to
\* hosts_generator holds exactly the elements at the positions not recorded in
\* invalid_lines, in their order, every one of them a network.
C9_DeletionKeepsAccepted ==
    /\ pc # "IndexError"
    /\ DeletionOver =>
           /\ netlist = KeptFrom([k \in 1..Len(file) |-> LineClass(k).net],
                                 Range(invalid_lines), 1)
           /\ \A g \in 1..Len(netlist) : netlist[g].kind = "net"

C9_Witness ==
    /\ DeletionOver
    /\ Len(file) = 2
    /\ invalid_lines = <<1>>
    /\ Len(netlist) = 1
    /\ netlist[1].kind = "net"

\* the loop was left: the name does not exist, or 'y' answered the prompt
\* about this very name
LoopLeftSafely ==
    pc \in {"read", "classify", "delete"} =>
        \/ f_output \notin fs
        \/ choice = "y" /\ prompted = f_output

\* while the name exists, another pass with the name unchanged is possible
RetryPossible ==
    (pc = "confirm" /\ f_output \in fs) =>
        ENABLED (ConfirmOverwrite /\ pc' = "confirm" /\ f_output' = f_output)

\* a pass of the loop: it leaves only with the name it tested, and stays with
\* a new name after 'n', with the same name after anything else
LoopPass ==
    /\ (pc = "confirm" /\ pc' # "confirm") =>
           /\ pc' = "read"
           /\ f_output' = f_output
           /\ f_output \notin fs \/ (choice' = "y" /\ prompted' = f_output)
    /\ (pc = "confirm" /\ pc' = "confirm" /\ vars' # vars) =>
           /\ f_output \in fs
           /\ prompted' = f_output
           /\ choice' # "y"
           /\ IF choice' = "n" THEN f_output' \in Names
              ELSE f_output' = f_output
    /\ pc # "confirm" => f_output' = f_output

\* C10: the overwrite loop is left, and the output name opened, only when the
\* name does not exist or 'y' answered the prompt about that name; 'n'
\* replaces the name and the loop tests the new one; any other answer prompts
\* again with the name unchanged, as often as it is given.
C10_OverwriteConfirmed == [](LoopLeftSafely /\ RetryPossible) /\ [][LoopPass]_vars

C10_Witness ==
    /\ pc = "read"
    /\ choice = "y"
    /\ f_output = <<"hosts">>
    /\ prompted = <<"hosts">>
    /\ f_output \in fs

====
